---- MODULE Spec2Model ----
(***************************************************************************)
(* Air Quality & Pollution Tracking Portal (src/main.py).                  *)
(*                                                                         *)
(* The state is the five JSON collections under data/, the menu that is    *)
(* reading input, the citizen dictionary held by citizen_menu, and the     *)
(* console (last status line, last report table).  One action models one   *)
(* handler run to completion with the lines typed into it as parameters.   *)
(*                                                                         *)
(* Numbers.  A Python float is modelled in hundredths: the integer c       *)
(* stands for c/100, and NaN is the float that float("nan") returns.       *)
(* An AQI stored by int(...) is a plain integer.                           *)
(*                                                                         *)
(* Identifiers.  gen_id returns prefix + 8 hex digits of a uuid4; the      *)
(* model takes uuid4 at its word (never the same value twice) and numbers  *)
(* the generated identifiers 1, 2, 3, ...  The fixed identifiers of the    *)
(* sample data are the values below 0.                                     *)
(***************************************************************************)
EXTENDS Integers, Sequences, FiniteSets, TLC

VARIABLES air, citizens, pollutants, alerts, guidelines,
          menu, citizen, nextId, out, table

vars == <<air, citizens, pollutants, alerts, guidelines,
          menu, citizen, nextId, out, table>>

files == <<air, citizens, pollutants, alerts, guidelines>>

-----------------------------------------------------------------------------
(* Bounds of the model *)

\* identifiers gen_id may return on top of those of the sample data
MaxId == 2
\* entries created on top of the sample data in the model of the whole program
MaxNew == 2
\* records the air-quality collection may hold
MaxAir == 2
\* entries the pollutant collection may hold
MaxPollutants == 2
\* entries the alert collection may hold
MaxAlerts == 2
\* entries the citizen collection may hold
MaxCitizens == 2
\* rows of one bulk import file
MaxRows == 1
\* records of the report model
MaxReportRecs == 9

-----------------------------------------------------------------------------
(* Floats, text and the conversions applied to typed lines *)

NaN == [nan |-> TRUE, c |-> 0]

F(c) == [nan |-> FALSE, c |-> c]

\* what float(x) returns for the numeric lines of the model, in hundredths
NumLit ==
  ("0" :> F(0)) @@ ("1" :> F(100)) @@ ("50" :> F(5000)) @@ ("150" :> F(15000))
  @@ ("12.7" :> F(1270)) @@ ("-5" :> F(-500)) @@ ("-3.9" :> F(-390))
  @@ ("7.5" :> F(750)) @@ ("nan" :> NaN)

\* lines with surrounding blanks and what str.strip() leaves of them
Padded == (" Delhi " :> "Delhi") @@ (" admin " :> "admin") @@ ("  " :> "")

strip(line) == IF line \in DOMAIN Padded THEN Padded[line] ELSE line

safe_float(x, default) == IF x \in DOMAIN NumLit THEN NumLit[x] ELSE default

\* a slip: the nearest integer instead of the integer part
IntNearest(f) == (f.c + 50) \div 100

\* int(f) of a float that is not NaN: truncation towards zero
int(f) == IF f.c >= 0 THEN f.c \div 100 ELSE -((-f.c) \div 100)

\* int(f) raises ValueError
IntRaises(f) == f.nan

-----------------------------------------------------------------------------
(* Helpers *)

SeqToSet(s) == {s[i] : i \in 1..Len(s)}

\* index of the item find_by_id returns: the first one whose key matches, 0 for None
FirstMatch(list_obj, key_name, key_value) ==
  LET hits == {i \in 1..Len(list_obj) : list_obj[i][key_name] = key_value}
  IN  IF hits = {} THEN 0 ELSE CHOOSE i \in hits : \A j \in hits : i <= j

find_by_id(list_obj, key_name, key_value) == FirstMatch(list_obj, key_name, key_value)

\* json.dump then json.load of a list of maps whose values are strings, integers,
\* floats and maps with string keys gives the list back
save_json(data) == data

load_json(file) == file

gen_id == nextId

NoCitizen == [citizen_id |-> 0, name |-> "", age |-> "", location |-> "", contact |-> ""]

-----------------------------------------------------------------------------
(* Sample data written by create_sample_data.  The model keeps the first   *)
(* entry of each generated list: of the six pollutants, of the two         *)
(* citizens, of the two alerts and of the 300 measurements (Delhi, 1       *)
(* January; random.seed(42) fixes its values), with the level of the       *)
(* pollutant kept.  The guidelines, which no handler writes, are all kept. *)

SamplePollutantList ==
  << [pollutant_id |-> -1, name |-> "PM2.5",
      description |-> "Fine particulate matter", safe_limit |-> F(6000)] >>

SampleGuidelines ==
  << [guide_id |-> "g1", AQI_range |-> "0-50", precautions |-> "Good"],
     [guide_id |-> "g2", AQI_range |-> "51-100", precautions |-> "Moderate"],
     [guide_id |-> "g3", AQI_range |-> "101-200", precautions |-> "Unhealthy"],
     [guide_id |-> "g4", AQI_range |-> "201-300", precautions |-> "Very Unhealthy"],
     [guide_id |-> "g5", AQI_range |-> "301-500", precautions |-> "Hazardous"] >>

\* the age of the sample citizen is the number 30 in the code
SampleCitizens ==
  << [citizen_id |-> -11, name |-> "Alice", age |-> "30",
      location |-> "Delhi", contact |-> "alice@example.com"] >>

SampleAir(id) ==
  << [record_id |-> id, region |-> "Delhi", date |-> "2025-01-01", AQI |-> 377,
      pollutants |-> ("PM2.5" :> F(13830)), health_risk |-> ""] >>

SampleAlerts(id) ==
  << [alert_id |-> id, region |-> "Delhi", AQI_level |-> "Very Unhealthy",
      status |-> "active", issue_date |-> "2025-01-10", expiry_date |-> "2025-01-12"] >>

\* identifiers create_sample_data draws from gen_id
SampleIds == Len(SampleAir(0)) + Len(SampleAlerts(0))

create_sample_data ==
  /\ pollutants' = save_json(SamplePollutantList)
  /\ guidelines' = save_json(SampleGuidelines)
  /\ citizens' = save_json(SampleCitizens)
  /\ air' = save_json(SampleAir(gen_id))
  /\ alerts' = save_json(SampleAlerts(gen_id + Len(SampleAir(0))))
  /\ nextId' = nextId + SampleIds
  /\ out' = "Sample data created in data/"

ensure_sample_data ==
  IF load_json(pollutants) = <<>>
  THEN create_sample_data
  ELSE UNCHANGED <<files, nextId>> /\ out' = ""

-----------------------------------------------------------------------------
(* Program start and the main menu *)

\* before the first run: data/ does not exist, ensure_data_dir will create
\* the five files holding []
Init ==
  /\ air = <<>> /\ citizens = <<>> /\ pollutants = <<>>
  /\ alerts = <<>> /\ guidelines = <<>>
  /\ menu = "off"
  /\ citizen = NoCitizen
  /\ nextId = 1
  /\ out = ""
  /\ table = <<>>

\* python main.py: main_menu calls ensure_sample_data and enters its loop
Start ==
  /\ menu = "off"
  /\ ensure_sample_data
  /\ menu' = "main"
  /\ UNCHANGED citizen
  /\ table' = <<>>

\* an exception no handler catches ends the process with a traceback
Raise ==
  /\ menu' = "off"
  /\ out' = "Traceback"
  /\ table' = <<>>
  /\ citizen' = NoCitizen
  /\ UNCHANGED <<files, nextId>>

admin_login(u, p) == strip(u) = "admin" /\ strip(p) = "admin123"

\* main_menu, one pass of its loop with choice ch
main_menu_1(u, p) ==
  /\ menu = "main"
  /\ IF admin_login(u, p)
     THEN menu' = "admin" /\ out' = "Logged in as admin."
     ELSE menu' = "main" /\ out' = "Invalid credentials."
  /\ table' = <<>>
  /\ UNCHANGED <<files, nextId, citizen>>

main_menu_2(cid) ==
  /\ menu = "main"
  /\ LET cs == load_json(citizens)
         c  == find_by_id(cs, "citizen_id", cid)
     IN  IF c # 0
         THEN menu' = "citizen" /\ citizen' = cs[c] /\ out' = ""
         ELSE menu' = "main" /\ citizen' = citizen
              /\ out' = "Citizen not found. Register first."
  /\ table' = <<>>
  /\ UNCHANGED <<files, nextId>>

register_citizen(name, age, location, contact) ==
  /\ menu = "main"
  /\ citizens' = save_json(Append(load_json(citizens),
        [citizen_id |-> gen_id, name |-> strip(name), age |-> strip(age),
         location |-> strip(location), contact |-> strip(contact)]))
  /\ nextId' = nextId + 1
  /\ out' = "Registered. Your Citizen ID:"
  /\ table' = <<>>
  /\ UNCHANGED <<air, pollutants, alerts, guidelines, menu, citizen>>

main_menu(ch) ==
  /\ menu = "main"
  /\ ch \notin {"1", "2", "3"}
  /\ IF ch = "4"
     THEN menu' = "off" /\ out' = "Goodbye."
     ELSE menu' = "main" /\ out' = "Invalid input."
  /\ table' = <<>>
  /\ UNCHANGED <<files, nextId, citizen>>

-----------------------------------------------------------------------------
(* Admin menu and the air-quality handlers *)

\* str.lower() on the lines of the model
Lowered ==
  ("D" :> "d") @@ ("U" :> "u") @@ ("Delhi" :> "delhi") @@ ("Mumbai" :> "mumbai")
  @@ ("Pune" :> "pune") @@ ("Kanpur" :> "kanpur") @@ ("DELHI" :> "delhi")

lower(line) == IF line \in DOMAIN Lowered THEN Lowered[line] ELSE line

Max(S) == CHOOSE x \in S : \A y \in S : y <= x

\* the dict the prompt loop of add_air_quality_record builds: vals[i] is the line
\* typed for pollutants_list[i]; a later pollutant of the same name overwrites
PollutantLevels(pollutants_list, vals) ==
  LET given == {i \in 1..Len(pollutants_list) : strip(vals[i]) # ""}
      names == {pollutants_list[i].name : i \in given}
  IN  [n \in names |->
         safe_float(strip(vals[Max({i \in given : pollutants_list[i].name = n})]), F(0))]

\* the float add_air_quality_record computes from the AQI line
AqiOfLine(line) == IF strip(line) = "" THEN F(0) ELSE safe_float(strip(line), F(0))

NewRecord(id, region, date, aqi, levels) ==
  [record_id |-> id, region |-> region, date |-> date, AQI |-> int(aqi),
   pollutants |-> levels, health_risk |-> ""]

\* admin_menu choice 1
add_air_quality_record(region, date, aqi, vals, today) ==
  /\ menu = "admin"
  /\ LET a == load_json(air)
         pollutants_list == load_json(pollutants)
         d == IF strip(date) = "" THEN today ELSE strip(date)
         f == AqiOfLine(aqi)
     IN  IF IntRaises(f)
         THEN Raise
         ELSE /\ air' = save_json(Append(a,
                   NewRecord(gen_id, strip(region), d, f,
                             PollutantLevels(pollutants_list, vals))))
              /\ nextId' = nextId + 1
              /\ out' = "Record added."
              /\ table' = <<>>
              /\ UNCHANGED <<citizens, pollutants, alerts, guidelines, menu, citizen>>

\* [r for r in air if r["record_id"] != rid]
DeleteById(a, rid) == SelectSeq(a, LAMBDA r : r.record_id # rid)

\* the record update_delete_aq_record leaves after the 'u' prompts; vals[k] is the
\* line typed for pollutant k of the record
UpdatedRecord(rec, region, date, aqi_in, vals) ==
  [rec EXCEPT
     !.region = IF strip(region) = "" THEN rec.region ELSE strip(region),
     !.date = IF strip(date) = "" THEN rec.date ELSE strip(date),
     !.AQI = IF strip(aqi_in) = "" THEN rec.AQI
             ELSE int(safe_float(strip(aqi_in), F(100 * rec.AQI))),
     !.pollutants = [k \in DOMAIN rec.pollutants |->
                       IF strip(vals[k]) = "" THEN rec.pollutants[k]
                       ELSE safe_float(strip(vals[k]), F(0))]]

\* admin_menu choice 2; rid 0 is the blank line
update_delete_aq_record(rid, action, region, date, aqi_in, vals) ==
  /\ menu = "admin"
  /\ LET a == load_json(air)
         rec == find_by_id(a, "record_id", rid)
     IN  IF a = <<>>
         THEN /\ out' = "No air quality records available."
              /\ table' = <<>>
              /\ UNCHANGED <<files, nextId, menu, citizen>>
         ELSE IF rid = 0
         THEN /\ out' = ""
              /\ table' = <<>>
              /\ UNCHANGED <<files, nextId, menu, citizen>>
         ELSE IF rec = 0
         THEN /\ out' = "Record not found."
              /\ table' = <<>>
              /\ UNCHANGED <<files, nextId, menu, citizen>>
         ELSE IF lower(strip(action)) = "d"
         THEN /\ air' = save_json(DeleteById(a, rid))
              /\ out' = "Deleted."
              /\ table' = <<>>
              /\ UNCHANGED <<citizens, pollutants, alerts, guidelines,
                             nextId, menu, citizen>>
         ELSE IF lower(strip(action)) = "u"
         THEN IF strip(aqi_in) # ""
                 /\ IntRaises(safe_float(strip(aqi_in), F(100 * a[rec].AQI)))
              THEN Raise
              ELSE /\ air' = save_json([a EXCEPT ![rec] =
                                UpdatedRecord(a[rec], region, date, aqi_in, vals)])
                   /\ out' = "Updated."
                   /\ table' = <<>>
                   /\ UNCHANGED <<citizens, pollutants, alerts, guidelines,
                                  nextId, menu, citizen>>
         ELSE /\ out' = "Cancelled."
              /\ table' = <<>>
              /\ UNCHANGED <<files, nextId, menu, citizen>>

-----------------------------------------------------------------------------
(* Bulk import.  A JSON file is a list of record maps; record_id 0 stands  *)
(* for a map without the key.  A CSV file has the columns region, date,    *)
(* AQI, health_risk and, in cols, pollutant columns.                       *)

\* the loop of the .json branch: keeps a record_id the file gives
RECURSIVE ImportJson(_, _, _)
ImportJson(a, data, id) ==
  IF data = <<>> THEN a
  ELSE LET rec == Head(data)
       IN  IF rec.record_id = 0
           THEN ImportJson(Append(a, [rec EXCEPT !.record_id = id]), Tail(data), id + 1)
           ELSE ImportJson(Append(a, rec), Tail(data), id)

MissingIds(data) == Cardinality({i \in 1..Len(data) : data[i].record_id = 0})

CsvRecord(row, id, names) ==
  [record_id |-> id, region |-> row.region, date |-> row.date,
   AQI |-> int(safe_float(row.AQI, F(0))),
   pollutants |-> [pn \in {n \in names : n \in DOMAIN row.cols /\ row.cols[n] # ""} |->
                     safe_float(row.cols[pn], F(0))],
   health_risk |-> row.health_risk]

\* the loop of the .csv branch
RECURSIVE ImportCsv(_, _, _, _)
ImportCsv(a, rows, id, names) ==
  IF rows = <<>> THEN a
  ELSE ImportCsv(Append(a, CsvRecord(Head(rows), id, names)), Tail(rows), id + 1, names)

\* admin_menu choice 4; kind tells what the path names
upload_bulk_data(kind, data) ==
  /\ menu = "admin"
  /\ table' = <<>>
  /\ CASE kind = "missing" ->
            /\ out' = "File not found."
            /\ UNCHANGED <<files, nextId, menu, citizen>>
       [] kind = "json" ->
            /\ air' = save_json(ImportJson(load_json(air), data, gen_id))
            /\ nextId' = nextId + MissingIds(data)
            /\ out' = "Imported records."
            /\ UNCHANGED <<citizens, pollutants, alerts, guidelines, menu, citizen>>
       [] kind = "json_object" ->
            /\ out' = "JSON must be a list of records."
            /\ UNCHANGED <<files, nextId, menu, citizen>>
       [] kind = "csv" ->
            IF \E i \in 1..Len(data) : IntRaises(safe_float(data[i].AQI, F(0)))
            THEN /\ menu' = "off"
                 /\ out' = "Traceback"
                 /\ citizen' = NoCitizen
                 /\ UNCHANGED <<files, nextId>>
            ELSE /\ air' = save_json(ImportCsv(load_json(air), data, gen_id,
                              {load_json(pollutants)[i].name : i \in 1..Len(pollutants)}))
                 /\ nextId' = nextId + Len(data)
                 /\ out' = "Imported rows from CSV."
                 /\ UNCHANGED <<citizens, pollutants, alerts, guidelines, menu, citizen>>
       [] OTHER ->
            /\ out' = "Unsupported file type. Use .json or .csv"
            /\ UNCHANGED <<files, nextId, menu, citizen>>

-----------------------------------------------------------------------------
(* Pollutant menu *)

\* [x for x in pollutants if x["pollutant_id"] != pid]
DeletePollutant(ps, pid) == SelectSeq(ps, LAMBDA x : x.pollutant_id # pid)

\* manage_pollutants, one pass of its loop
manage_pollutants_1(name, desc, sl) ==
  /\ menu = "pollutants"
  /\ pollutants' = save_json(Append(load_json(pollutants),
        [pollutant_id |-> gen_id, name |-> strip(name), description |-> strip(desc),
         safe_limit |-> safe_float(strip(sl), F(0))]))
  /\ nextId' = nextId + 1
  /\ out' = "Pollutant added."
  /\ table' = <<>>
  /\ UNCHANGED <<air, citizens, alerts, guidelines, menu, citizen>>

manage_pollutants_2(pid, name, desc, sl) ==
  /\ menu = "pollutants"
  /\ table' = <<>>
  /\ LET ps == load_json(pollutants)
         p == find_by_id(ps, "pollutant_id", pid)
     IN  IF p = 0
         THEN /\ out' = "Not found."
              /\ UNCHANGED <<files, nextId, menu, citizen>>
         ELSE /\ pollutants' = save_json([ps EXCEPT ![p] =
                   [@ EXCEPT
                      !.name = IF strip(name) = "" THEN @ ELSE strip(name),
                      !.description = IF strip(desc) = "" THEN @ ELSE strip(desc),
                      !.safe_limit = IF strip(sl) = "" THEN @
                                     ELSE safe_float(strip(sl), F(0))]])
              /\ out' = "Updated."
              /\ UNCHANGED <<air, citizens, alerts, guidelines, nextId, menu, citizen>>

manage_pollutants_3(pid) ==
  /\ menu = "pollutants"
  /\ pollutants' = save_json(DeletePollutant(load_json(pollutants), pid))
  /\ out' = "Deleted if existed."
  /\ table' = <<>>
  /\ UNCHANGED <<air, citizens, alerts, guidelines, nextId, menu, citizen>>

manage_pollutants(ch) ==
  /\ menu = "pollutants"
  /\ ch \notin {"1", "2", "3"}
  /\ IF ch = "4"
     THEN menu' = "admin" /\ out' = ""
     ELSE menu' = "pollutants" /\ out' = "Invalid choice."
  /\ table' = <<>>
  /\ UNCHANGED <<files, nextId, citizen>>

-----------------------------------------------------------------------------
(* Reports *)

\* round(total / n, 1) in tenths: Python rounds the quotient to the nearest tenth
\* and an exact half (x.25, x.75, the only ones a group of fewer than 20 integer
\* readings can give) to the even tenth
Round1(total, n) ==
  LET q == (10 * total) \div n
      r == (10 * total) % n
  IN  IF 2 * r < n THEN q
      ELSE IF 2 * r > n THEN q + 1
      ELSE IF q % 2 = 0 THEN q ELSE q + 1

\* the keys of region_map in insertion order: regions by first appearance
RECURSIVE RegionsInOrder(_, _)
RegionsInOrder(a, seen) ==
  IF a = <<>> THEN seen
  ELSE IF \E i \in 1..Len(seen) : seen[i] = Head(a).region
       THEN RegionsInOrder(Tail(a), seen)
       ELSE RegionsInOrder(Tail(a), Append(seen, Head(a).region))

RECURSIVE SumAQI(_)
SumAQI(a) == IF a = <<>> THEN 0 ELSE Head(a).AQI + SumAQI(Tail(a))

RegionRow(a, region) ==
  LET recs == SelectSeq(a, LAMBDA r : r.region = region)
  IN  [region |-> region, avg |-> Round1(SumAQI(recs), Len(recs)), n |-> Len(recs)]

\* the key rows.sort(key=lambda x: x[1], reverse=True) compares
SortKey(row) == row.avg

\* list.sort with reverse=True is stable: a row goes behind every row placed
\* before it whose key is not smaller
InsertDesc(sorted, row) ==
  LET k == Cardinality({i \in 1..Len(sorted) : SortKey(sorted[i]) >= SortKey(row)})
  IN  SubSeq(sorted, 1, k) \o <<row>> \o SubSeq(sorted, k + 1, Len(sorted))

RECURSIVE SortDesc(_, _)
SortDesc(sorted, rows) ==
  IF rows = <<>> THEN sorted
  ELSE SortDesc(InsertDesc(sorted, Head(rows)), Tail(rows))

\* report 1: top polluted regions
TopPolluted(a) ==
  LET regions == RegionsInOrder(a, <<>>)
      rows == [i \in 1..Len(regions) |-> RegionRow(a, regions[i])]
  IN  SortDesc(<<>>, rows)

\* the month key of report 2: "%Y-%m" of a date strptime accepts, else the text
MonthKeys == ("2025-01-01" :> "2025-01") @@ ("2025-02-01" :> "2025-02")
             @@ ("2026-11-03" :> "2026-11")

MonthKey(date) == IF date \in DOMAIN MonthKeys THEN MonthKeys[date] ELSE date

\* the order of Python's string comparison on the keys and dates of the model
TextRank ==
  ("" :> 0) @@ ("2025-01" :> 1) @@ ("2025-01-01" :> 2) @@ ("2025-02" :> 3)
  @@ ("2025-02-01" :> 4) @@ ("2026-11" :> 5) @@ ("2026-11-03" :> 6)

\* report 2: per month, the sum and the count of the mean sum(v)/len(v), by key
MonthlyTrend(rows) ==
  LET keys == {MonthKey(rows[i].date) : i \in 1..Len(rows)}
      RECURSIVE Asc(_)
      Asc(ks) ==
        IF ks = {} THEN <<>>
        ELSE LET k == CHOOSE x \in ks : \A y \in ks : TextRank[x] <= TextRank[y]
                 recs == SelectSeq(rows, LAMBDA r : MonthKey(r.date) = k)
             IN  <<[month |-> k, total |-> SumAQI(recs), n |-> Len(recs)]>>
                 \o Asc(ks \ {k})
  IN  Asc(keys)

\* admin_menu choice 5 up to the prompt of generate_reports
generate_reports_open ==
  /\ menu = "admin"
  /\ IF load_json(air) = <<>>
     THEN menu' = "admin" /\ out' = "No data available."
     ELSE menu' = "reports" /\ out' = ""
  /\ table' = <<>>
  /\ UNCHANGED <<files, nextId, citizen>>

\* generate_reports from the line typed at its prompt: every branch returns
generate_reports(ch, region) ==
  /\ menu = "reports"
  /\ menu' = "admin"
  /\ LET a == load_json(air)
         rows == SelectSeq(a, LAMBDA r : lower(r.region) = lower(strip(region)))
     IN  CASE ch = "1" -> out' = "" /\ table' = TopPolluted(a)
           [] ch = "2" ->
                IF rows = <<>>
                THEN out' = "No data for that region." /\ table' = <<>>
                ELSE out' = "" /\ table' = MonthlyTrend(rows)
           [] ch = "3" ->
                IF load_json(alerts) = <<>>
                THEN out' = "No alerts." /\ table' = <<>>
                ELSE out' = "" /\ table' = load_json(alerts)
           [] OTHER -> out' = "" /\ table' = <<>>
  /\ UNCHANGED <<files, nextId, citizen>>

-----------------------------------------------------------------------------
(* Alerts *)

\* a slip: every alert of the list is marked
WithdrawAll(as, a) == [i \in 1..Len(as) |-> [as[i] EXCEPT !.status = "withdrawn"]]

\* a slip: the status is flipped
WithdrawToggle(as, a) ==
  [as EXCEPT ![a].status = IF @ = "withdrawn" THEN "active" ELSE "withdrawn"]

\* a["status"] = "withdrawn" on the alert find_by_id returned
Withdraw(as, a) == [as EXCEPT ![a].status = "withdrawn"]

NewAlert(id, region, level, today, expiry) ==
  [alert_id |-> id, region |-> region, AQI_level |-> level, status |-> "active",
   issue_date |-> today, expiry_date |-> expiry]

\* admin_menu choice 6 up to the prompt of manage_alerts
manage_alerts_open ==
  /\ menu = "admin"
  /\ menu' = "alerts"
  /\ out' = ""
  /\ table' = <<>>
  /\ UNCHANGED <<files, nextId, citizen>>

\* manage_alerts choice 1
manage_alerts_1(region, level, expiry, today) ==
  /\ menu = "alerts"
  /\ menu' = "admin"
  /\ alerts' = save_json(Append(load_json(alerts),
        NewAlert(gen_id, strip(region), strip(level), today, strip(expiry))))
  /\ nextId' = nextId + 1
  /\ out' = "Alert issued."
  /\ table' = <<>>
  /\ UNCHANGED <<air, citizens, pollutants, guidelines, citizen>>

\* manage_alerts choice 2
manage_alerts_2(aid) ==
  /\ menu = "alerts"
  /\ menu' = "admin"
  /\ table' = <<>>
  /\ LET as == load_json(alerts)
         a == find_by_id(as, "alert_id", aid)
     IN  IF a # 0
         THEN /\ alerts' = save_json(Withdraw(as, a))
              /\ out' = "Alert withdrawn."
              /\ UNCHANGED <<air, citizens, pollutants, guidelines, nextId, citizen>>
         ELSE /\ out' = ""
              /\ UNCHANGED <<files, nextId, citizen>>

\* manage_alerts, any other line
manage_alerts(ch) ==
  /\ menu = "alerts"
  /\ ch \notin {"1", "2"}
  /\ menu' = "admin"
  /\ out' = ""
  /\ table' = <<>>
  /\ UNCHANGED <<files, nextId, citizen>>

\* a slip: a line that matches nothing leaves the loop
AdminMenuLeaves(ch) ==
  /\ menu = "admin"
  /\ ch \notin {"1", "2", "4", "5", "6"}
  /\ CASE ch = "3" -> menu' = "pollutants" /\ out' = ""
       [] OTHER -> menu' = "main" /\ out' = ""
  /\ table' = <<>>
  /\ UNCHANGED <<files, nextId, citizen>>

\* admin_menu, one pass of its loop for the choices that take no further input
admin_menu(ch) ==
  /\ menu = "admin"
  /\ ch \notin {"1", "2", "4", "5", "6"}
  /\ CASE ch = "3" -> menu' = "pollutants" /\ out' = ""
       [] ch = "7" -> menu' = "main" /\ out' = ""
       [] OTHER -> menu' = "admin" /\ out' = "Invalid choice."
  /\ table' = <<>>
  /\ UNCHANGED <<files, nextId, citizen>>

-----------------------------------------------------------------------------
(* Citizen menu.  citizen is the dictionary main_menu found at login and    *)
(* passed to citizen_menu.                                                  *)

\* the first record of rows with the greatest date: what a stable descending
\* sort by date puts first, and what the latest-per-region loop keeps
Latest(rows) ==
  LET best == {i \in 1..Len(rows) :
                 \A j \in 1..Len(rows) : TextRank[rows[j].date] <= TextRank[rows[i].date]}
  IN  rows[CHOOSE i \in best : \A j \in best : i <= j]

\* citizen_menu choice 1
view_current_aqi ==
  /\ menu = "citizen"
  /\ LET region == citizen.location
         region_records == SelectSeq(load_json(air),
                             LAMBDA r : lower(r.region) = lower(region))
         active == SelectSeq(load_json(alerts),
                     LAMBDA a : lower(a.region) = lower(region) /\ a.status = "active")
     IN  IF region_records = <<>>
         THEN out' = "No AQI data for region" /\ table' = <<>>
         ELSE out' = "" /\ table' = <<Latest(region_records)>> \o active
  /\ UNCHANGED <<files, nextId, menu, citizen>>

\* citizen_menu choice 2
search_historical_data(ch, arg) ==
  /\ menu = "citizen"
  /\ LET a == load_json(air)
         regions == RegionsInOrder(a, <<>>)
         results ==
           CASE ch = "1" -> SelectSeq(a, LAMBDA r : r.date = strip(arg))
             [] ch = "2" -> SelectSeq(a, LAMBDA r : lower(r.region) = lower(strip(arg)))
             [] ch = "3" -> SelectSeq(a, LAMBDA r : strip(arg) \in DOMAIN r.pollutants)
             [] ch = "4" -> [i \in 1..Len(regions) |->
                               Latest(SelectSeq(a, LAMBDA r : r.region = regions[i]))]
             [] OTHER -> <<>>
     IN  IF a = <<>>
         THEN out' = "No air quality data available." /\ table' = <<>>
         ELSE IF ch \notin {"1", "2", "3", "4"}
         THEN out' = "" /\ table' = <<>>
         ELSE IF results = <<>>
         THEN out' = "No matches found." /\ table' = <<>>
         ELSE out' = "" /\ table' = results
  /\ UNCHANGED <<files, nextId, menu, citizen>>

\* citizen_menu choice 3
view_trends ==
  /\ menu = "citizen"
  /\ out' = "Trend view (text-only). Use Generate Reports to see aggregated stats."
  /\ table' = <<>>
  /\ UNCHANGED <<files, nextId, menu, citizen>>

\* citizen_menu choice 4
access_guidelines ==
  /\ menu = "citizen"
  /\ IF load_json(guidelines) = <<>>
     THEN out' = "No guidelines available." /\ table' = <<>>
     ELSE out' = "" /\ table' = load_json(guidelines)
  /\ UNCHANGED <<files, nextId, menu, citizen>>

\* citizen_menu choice 5: the record in the file is rewritten, the dictionary
\* citizen_menu holds is not
manage_profile(name, age, location, contact) ==
  /\ menu = "citizen"
  /\ table' = <<>>
  /\ LET cs == load_json(citizens)
         found == find_by_id(cs, "citizen_id", citizen.citizen_id)
     IN  IF found = 0
         THEN /\ out' = "Profile not found."
              /\ UNCHANGED <<files, nextId, menu, citizen>>
         ELSE /\ citizens' = save_json([cs EXCEPT ![found] =
                   [@ EXCEPT
                      !.name = IF strip(name) = "" THEN @ ELSE strip(name),
                      !.age = IF strip(age) = "" THEN @ ELSE strip(age),
                      !.location = IF strip(location) = "" THEN @ ELSE strip(location),
                      !.contact = IF strip(contact) = "" THEN @ ELSE strip(contact)]])
              /\ out' = "Profile updated."
              /\ UNCHANGED <<air, pollutants, alerts, guidelines, nextId, menu, citizen>>

\* citizen_menu, one pass of its loop for logout and unmatched lines
citizen_menu(ch) ==
  /\ menu = "citizen"
  /\ ch \notin {"1", "2", "3", "4", "5"}
  /\ IF ch = "6"
     THEN menu' = "main" /\ citizen' = NoCitizen /\ out' = ""
     ELSE menu' = "citizen" /\ citizen' = citizen /\ out' = "Invalid choice."
  /\ table' = <<>>
  /\ UNCHANGED <<files, nextId>>

-----------------------------------------------------------------------------
(* The lines typed into the program *)

\* datetime.date.today()
Today == "2026-11-03"

\* an identifier no collection holds and gen_id never returns
UnknownId == MaxId + 2 * SampleIds + 1

Ids(list_obj, key_name) == {list_obj[i][key_name] : i \in 1..Len(list_obj)}

\* generated identifiers, in use or deleted since
Generated == 1..(nextId - 1)

\* blank lines for the pollutant prompts of add_air_quality_record
NoVals == [i \in 1..Len(pollutants) |-> ""]

\* lines for the pollutant prompts of the 'u' branch: all blank, or one level
NoLevels == [k \in {"PM2.5", "PM10", "Dust"} |-> ""]

OneLevel == [NoLevels EXCEPT !["PM2.5"] = "7.5"]

JsonRow(id, aqi) ==
  [record_id |-> id, region |-> "Pune", date |-> "2025-02-01", AQI |-> aqi,
   pollutants |-> <<>>, health_risk |-> ""]

CsvRow(aqi, level) ==
  [region |-> "Pune", date |-> "2025-02-01", AQI |-> aqi, health_risk |-> "",
   cols |-> ("PM2.5" :> level)]

\* files of at most n rows
RECURSIVE UpTo(_, _)
UpTo(rows, n) ==
  IF n = 0 THEN {<<>>}
  ELSE UpTo(rows, n - 1) \cup {Append(f, r) : f \in UpTo(rows, n - 1), r \in rows}

\* whether gen_id may be drawn n more times with last the last identifier
IdsLeft(n, last) == nextId + n - 1 <= last

-----------------------------------------------------------------------------
(* The whole program: every menu and every handler reached through them,   *)
(* with one line per prompt (blank where the handler takes a blank), and   *)
(* MaxNew entries created on top of the sample data.  The specifications   *)
(* after this one give single handlers the variety of their input.         *)

LastMenuId == SampleIds + MaxNew

Next ==
  \/ (pollutants # <<>> \/ IdsLeft(SampleIds, LastMenuId)) /\ Start
  \/ \E p \in {"admin123", "guess"} : main_menu_1(" admin ", p)
  \/ \E cid \in Ids(citizens, "citizen_id") \cup {UnknownId} : main_menu_2(cid)
  \/ /\ Len(citizens) < MaxCitizens /\ IdsLeft(1, LastMenuId)
     /\ register_citizen("Cara", "25", "Pune", "cara@example.com")
  \/ \E ch \in {"4", "x"} : main_menu(ch)
  \/ \E ch \in {"3", "7", "x"} : admin_menu(ch)
  \/ /\ Len(air) < MaxAir /\ IdsLeft(1, LastMenuId)
     /\ \E aqi \in {"150", "nan"} :
          add_air_quality_record("Pune", "", aqi, NoVals, Today)
  \/ \E rid \in Ids(air, "record_id") \cup {0, UnknownId}, action \in {"d", "u", "x"} :
       update_delete_aq_record(rid, action, "", "", "", NoLevels)
  \/ \E kind \in {"missing", "txt", "json_object"} : upload_bulk_data(kind, <<>>)
  \/ \E data \in UpTo({JsonRow(0, 50)}, MaxRows) :
       /\ Len(air) + Len(data) <= MaxAir /\ IdsLeft(MissingIds(data), LastMenuId)
       /\ upload_bulk_data("json", data)
  \/ \E data \in UpTo({CsvRow("50", "7.5")}, MaxRows) :
       /\ Len(air) + Len(data) <= MaxAir /\ IdsLeft(Len(data), LastMenuId)
       /\ upload_bulk_data("csv", data)
  \/ /\ Len(pollutants) < MaxPollutants /\ IdsLeft(1, LastMenuId)
     /\ manage_pollutants_1("Dust", "Road dust", "50")
  \/ \E pid \in Ids(pollutants, "pollutant_id") \cup {UnknownId} :
       manage_pollutants_2(pid, "", "", "")
  \/ \E pid \in Ids(pollutants, "pollutant_id") \cup {UnknownId} :
       manage_pollutants_3(pid)
  \/ \E ch \in {"4", "x"} : manage_pollutants(ch)
  \/ generate_reports_open
  \/ \E ch \in {"1", "2", "3", "4", "x"} : generate_reports(ch, "DELHI")
  \/ manage_alerts_open
  \/ /\ Len(alerts) < MaxAlerts /\ IdsLeft(1, LastMenuId)
     /\ manage_alerts_1("Pune", "Unhealthy", "", Today)
  \/ \E aid \in Ids(alerts, "alert_id") \cup {UnknownId} : manage_alerts_2(aid)
  \/ \E ch \in {"3", "x"} : manage_alerts(ch)
  \/ view_current_aqi
  \/ \E q \in {<<"1", "2025-01-01">>, <<"2", "Delhi">>, <<"3", "PM2.5">>,
                <<"4", "">>, <<"5", "">>} :
       search_historical_data(q[1], q[2])
  \/ view_trends
  \/ access_guidelines
  \/ manage_profile("", "", "", "")
  \/ \E ch \in {"6", "x"} : citizen_menu(ch)

Spec == Init /\ [][Next]_vars

-----------------------------------------------------------------------------
(* The air-quality handlers with the variety of their input, from the      *)
(* state the program is in after its first start and the admin login.      *)

InitAir ==
  /\ air = SampleAir(1)
  /\ alerts = SampleAlerts(1 + Len(SampleAir(0)))
  /\ pollutants = SamplePollutantList
  /\ citizens = SampleCitizens
  /\ guidelines = SampleGuidelines
  /\ menu = "admin"
  /\ citizen = NoCitizen
  /\ nextId = SampleIds + 1
  /\ out = "Logged in as admin."
  /\ table = <<>>

LastAirId == SampleIds + MaxId

\* the lines typed at the prompts of add_air_quality_record: region, date, AQI,
\* and the level of each pollutant
AddLines ==
  {<<" Delhi ", "", "12.7", "">>, <<"Pune", "2025-02-01", "-5", "7.5">>,
   <<"Pune", "2025-02-01", "150", "">>, <<"Pune", "", "abc", "">>,
   <<"Pune", "", "", "">>, <<"Pune", "", "nan", "">>}

\* the lines typed at the prompts of the 'u' branch: region, AQI, levels
UpdateLines ==
  {<<"Pune", "-3.9", OneLevel>>, <<"", "abc", NoLevels>>, <<"", "nan", NoLevels>>}

NextAir ==
  \/ /\ Len(air) < MaxAir /\ IdsLeft(1, LastAirId)
     /\ \E l \in AddLines :
          add_air_quality_record(l[1], l[2], l[3],
                                 [i \in 1..Len(pollutants) |-> l[4]], Today)
  \/ \E rid \in Ids(air, "record_id") \cup {0, UnknownId}, action \in {"d", "x"} :
       update_delete_aq_record(rid, action, "", "", "", NoLevels)
  \/ \E rid \in Ids(air, "record_id"), l \in UpdateLines :
       update_delete_aq_record(rid, "U", l[1], "", l[2], l[3])
  \/ \E kind \in {"missing", "txt", "json_object"} : upload_bulk_data(kind, <<>>)
  \/ \E data \in UpTo({JsonRow(0, -1)} \cup {JsonRow(id, 50) : id \in Generated},
                      MaxRows) :
       /\ Len(air) + Len(data) <= MaxAir /\ IdsLeft(MissingIds(data), LastAirId)
       /\ upload_bulk_data("json", data)
  \/ \E data \in UpTo({CsvRow("50", "7.5"), CsvRow("abc", ""), CsvRow("nan", "")},
                      MaxRows) :
       /\ Len(air) + Len(data) <= MaxAir /\ IdsLeft(Len(data), LastAirId)
       /\ upload_bulk_data("csv", data)

SpecAir == InitAir /\ [][NextAir]_vars

-----------------------------------------------------------------------------
(* The top-polluted-regions report over every list of at most             *)
(* MaxReportRecs integer readings of two regions, from the state the      *)
(* program is in once the admin has deleted the sample measurement and    *)
(* the sample pollutant (so that adding a record prompts for no level).   *)

InitReport ==
  /\ air = <<>>
  /\ alerts = SampleAlerts(1 + Len(SampleAir(0)))
  /\ pollutants = <<>>
  /\ citizens = SampleCitizens
  /\ guidelines = SampleGuidelines
  /\ menu = "admin"
  /\ citizen = NoCitizen
  /\ nextId = SampleIds + 1
  /\ out = "Deleted."
  /\ table = <<>>

NextReport ==
  \/ /\ Len(air) < MaxReportRecs
     /\ \E region \in {"Delhi", "Pune"}, aqi \in {"0", "1"} :
          add_air_quality_record(region, "2025-01-01", aqi, <<>>, Today)
  \/ generate_reports_open
  \/ generate_reports("1", "")

SpecReport == InitReport /\ [][NextReport]_vars

-----------------------------------------------------------------------------
(* Runs of the program one after the other: the admin creates, withdraws   *)
(* and deletes entries, leaves through the main menu, and the program is   *)
(* started again.                                                          *)

LastRestartId == 2 * SampleIds + MaxId

NextRestart ==
  \/ (pollutants # <<>> \/ IdsLeft(SampleIds, LastRestartId)) /\ Start
  \/ main_menu_1("admin", "admin123")
  \/ /\ Len(citizens) < MaxCitizens /\ IdsLeft(1, LastRestartId)
     /\ register_citizen("Cara", "25", "Pune", "cara@example.com")
  \/ main_menu("4")
  \/ \E ch \in {"3", "7"} : admin_menu(ch)
  \/ /\ Len(air) < MaxAir /\ IdsLeft(1, LastRestartId)
     /\ add_air_quality_record("Pune", "", "150", NoVals, Today)
  \/ \E pid \in Ids(pollutants, "pollutant_id") : manage_pollutants_3(pid)
  \/ manage_pollutants("4")
  \/ manage_alerts_open
  \/ /\ Len(alerts) < MaxAlerts /\ IdsLeft(1, LastRestartId)
     /\ \E region \in {"Pune", " Delhi "} :
          manage_alerts_1(region, "Unhealthy", "", Today)
  \/ \E aid \in Ids(alerts, "alert_id") \cup {UnknownId} : manage_alerts_2(aid)
  \/ manage_alerts("3")

SpecRestart == Init /\ [][NextRestart]_vars

-----------------------------------------------------------------------------
(* The citizen side: citizens register, log in, change their profile and   *)
(* look at the air quality of their region, while the admin adds records   *)
(* for another region.                                                     *)

LastCitizenId == SampleIds + MaxNew

\* the four lines typed at the prompts of manage_profile: name, age, location,
\* contact
ProfileLines ==
  {<<"", "", "", "">>, <<"Zed", "", "Pune", "">>, <<"", "31", " Delhi ", "">>}

NextCitizen ==
  \/ IdsLeft(SampleIds, LastCitizenId) /\ Start
  \/ main_menu_1("admin", "admin123")
  \/ \E cid \in Ids(citizens, "citizen_id") \cup {UnknownId} : main_menu_2(cid)
  \/ /\ Len(citizens) < MaxCitizens /\ IdsLeft(1, LastCitizenId)
     /\ register_citizen("Cara", "25", "Pune", "cara@example.com")
  \/ admin_menu("7")
  \/ /\ Len(air) < MaxAir /\ IdsLeft(1, LastCitizenId)
     /\ add_air_quality_record("Pune", "", "150", NoVals, Today)
  \/ view_current_aqi
  \/ \E l \in ProfileLines : manage_profile(l[1], l[2], l[3], l[4])
  \/ \E ch \in {"6", "x"} : citizen_menu(ch)

SpecCitizen == Init /\ [][NextCitizen]_vars

-----------------------------------------------------------------------------
(* Claims *)

Unique(list_obj, key_name) ==
  \A i, j \in 1..Len(list_obj) : list_obj[i][key_name] = list_obj[j][key_name] => i = j

\* list_obj without its k-th entry
Without(list_obj, k) == SubSeq(list_obj, 1, k - 1) \o SubSeq(list_obj, k + 1, Len(list_obj))

\* C1: after any sequence of menu operations no two entries of one collection
\* carry the same identifier; in particular a record appended by a bulk import
\* carries an identifier no record already in the air-quality collection has.
C1_UniqueIds ==
  /\ Unique(air, "record_id")
  /\ Unique(citizens, "citizen_id")
  /\ Unique(pollutants, "pollutant_id")
  /\ Unique(alerts, "alert_id")
  /\ Unique(guidelines, "guide_id")

\* C2: deleting an air-quality record by an id the collection holds removes
\* exactly one record, the one with that id, and leaves the others present,
\* unchanged and in order.
C2_DeleteRemovesOne ==
  [][\A rid \in Ids(air, "record_id") :
       update_delete_aq_record(rid, "d", "", "", "", NoLevels)
       => /\ Len(air') = Len(air) - 1
          /\ \E k \in 1..Len(air) : air[k].record_id = rid /\ air' = Without(air, k)]_vars

\* C3: withdrawing an alert by an id the collection holds leaves that alert with
\* status "withdrawn" and every other field as it was, and leaves every other
\* alert as it was.
C3_WithdrawFrame ==
  [][\A aid \in Ids(alerts, "alert_id") :
       manage_alerts_2(aid)
       => /\ Len(alerts') = Len(alerts)
          /\ \A i \in 1..Len(alerts) :
               IF alerts[i].alert_id = aid
               THEN /\ alerts'[i].status = "withdrawn"
                    /\ \A f \in DOMAIN alerts[i] \ {"status"} : alerts'[i][f] = alerts[i][f]
               ELSE alerts'[i] = alerts[i]]_vars

\* C3 witness: an alert has just been withdrawn while another alert is active
C3_Witness ==
  /\ out = "Alert withdrawn."
  /\ \E i, j \in 1..Len(alerts) :
       alerts[i].status = "withdrawn" /\ alerts[j].status = "active"

\* what Python stores for the AQI lines of AddLines ("nan" makes int() raise)
ExpectedAQI ==
  ("12.7" :> 12) @@ ("-5" :> -5) @@ ("150" :> 150) @@ ("abc" :> 0) @@ ("" :> 0)

ExpectedRegion == (" Delhi " :> "Delhi") @@ ("Pune" :> "Pune")

Last(list_obj) == list_obj[Len(list_obj)]

AddOf(l) ==
  add_air_quality_record(l[1], l[2], l[3], [i \in 1..Len(pollutants) |-> l[4]], Today)

\* C4 as stated: a record added and then loaded has the region, date, AQI and
\* pollutant levels that were typed, whatever was typed (surrounding blanks of the
\* region apart).
C4_RoundTripExact ==
  [][\A l \in AddLines :
       AddOf(l) /\ out' = "Record added."
       => LET r == Last(load_json(air'))
          IN  /\ r.region = ExpectedRegion[l[1]]
              /\ r.date = l[2]
              /\ l[3] \in DOMAIN NumLit /\ NumLit[l[3]] = F(100 * r.AQI)]_vars

\* C4 as amended: the loaded record has the typed region without surrounding
\* blanks, the typed date or today's date for a blank line, the typed number cut
\* to its integer part (0 for a blank or non-numeric line) and the level typed
\* for each pollutant (none for a blank line); the records already there are
\* unchanged; a line that parses to NaN makes the handler raise and stores nothing.
C4_RoundTripCoerced ==
  [][\A l \in AddLines :
       AddOf(l)
       => IF l[3] = "nan"
          THEN air' = air /\ out' = "Traceback"
          ELSE LET r == Last(load_json(air'))
               IN  /\ Len(air') = Len(air) + 1
                   /\ SubSeq(air', 1, Len(air)) = air
                   /\ r.region = ExpectedRegion[l[1]]
                   /\ r.date = (IF l[2] = "" THEN Today ELSE l[2])
                   /\ r.AQI = ExpectedAQI[l[3]]
                   /\ DOMAIN r.pollutants =
                        (IF l[4] = "" THEN {} ELSE Ids(pollutants, "name"))
                   /\ \A n \in DOMAIN r.pollutants : r.pollutants[n] = F(750)]_vars

\* C4 witness: a record typed with a blank date and the AQI 12.7 has been added
C4_Witness ==
  /\ out = "Record added."
  /\ Last(air).date = Today /\ Last(air).AQI = 12 /\ Last(air).region = "Delhi"

\* C5: in every reachable state each record's AQI is an integer >= 0.
C5_AqiNonNegative == \A i \in 1..Len(air) : air[i].AQI \in Nat

NotFoundLines == {"Record not found.", "Not found."}

\* C6: an update, delete or withdraw given an identifier its collection does not
\* hold prints a "not found" line and leaves the files as they were.
C6_NotFoundReported ==
  [][/\ (air # <<>> /\ \E action \in {"d", "u", "x"} :
            update_delete_aq_record(UnknownId, action, "", "", "", NoLevels))
        => out' \in NotFoundLines /\ UNCHANGED files
     /\ manage_pollutants_2(UnknownId, "", "", "")
        => out' \in NotFoundLines /\ UNCHANGED files
     /\ manage_pollutants_3(UnknownId)
        => out' \in NotFoundLines /\ UNCHANGED files
     /\ manage_alerts_2(UnknownId)
        => out' \in NotFoundLines /\ UNCHANGED files]_vars

RegionSum(region) == SumAQI(SelectSeq(air, LAMBDA r : r.region = region))

RegionCount(region) == Len(SelectSeq(air, LAMBDA r : r.region = region))

\* mean of a > mean of b, and mean of a = mean of b, without division
MeanGreater(a, b) == RegionSum(a) * RegionCount(b) > RegionSum(b) * RegionCount(a)

MeanEqual(a, b) == RegionSum(a) * RegionCount(b) = RegionSum(b) * RegionCount(a)

FirstSeen(region) ==
  CHOOSE i \in 1..Len(air) :
    air[i].region = region /\ \A j \in 1..(i - 1) : air[j].region # region

\* C7: the top-polluted-regions report has one row per region; a region whose
\* mean AQI is strictly greater is listed before one whose mean is smaller, and
\* regions of equal mean are listed in the order they are first seen.
C7_ReportOrder ==
  (menu = "admin" /\ table # <<>>)
  => /\ Len(table) = Cardinality(Ids(air, "region"))
     /\ Ids(table, "region") = Ids(air, "region")
     /\ \A i, j \in 1..Len(table) :
          /\ MeanGreater(table[i].region, table[j].region) => i < j
          /\ (MeanEqual(table[i].region, table[j].region)
              /\ FirstSeen(table[i].region) < FirstSeen(table[j].region)) => i < j

Parent ==
  ("main" :> "off") @@ ("admin" :> "main") @@ ("citizen" :> "main")
  @@ ("pollutants" :> "admin") @@ ("reports" :> "admin") @@ ("alerts" :> "admin")

ExitChoice ==
  \/ main_menu("4") \/ admin_menu("7") \/ citizen_menu("6") \/ manage_pollutants("4")
  \/ \E region \in {"DELHI"} : generate_reports("4", region)
  \/ manage_alerts("3")

\* C8 as stated: in every menu, the report and alert sub-menus included, a line
\* that matches no choice leaves the same menu active, and the menu changes to
\* its parent only on the exit, back or logout choice.
C8_EveryMenuLoops ==
  [][/\ (\/ main_menu("x") \/ admin_menu("x") \/ citizen_menu("x")
         \/ manage_pollutants("x") \/ generate_reports("x", "DELHI")
         \/ manage_alerts("x"))
        => menu' = menu
     /\ (menu \in DOMAIN Parent /\ menu' = Parent[menu]) => ExitChoice]_vars

\* C8 as amended: in the main, admin, citizen and pollutant menus a line that
\* matches no choice prints the invalid-choice line and leaves the same menu
\* active, and the menu changes to its parent only on the exit, back or logout
\* choice; the report and alert sub-menus read one line and return to the admin
\* menu whatever it is.
C8_LoopMenus ==
  [][/\ (\/ main_menu("x") \/ admin_menu("x") \/ citizen_menu("x")
         \/ manage_pollutants("x"))
        => menu' = menu /\ out' \in {"Invalid input.", "Invalid choice."}
     /\ (menu \in {"main", "admin", "citizen", "pollutants"} /\ menu' = Parent[menu])
        => ExitChoice
     /\ menu \in {"reports", "alerts"} => menu' = "admin"]_vars

\* C8 witness: an unmatched line has been typed in the pollutant menu
C8_Witness == menu = "pollutants" /\ out = "Invalid choice."

\* C9: an alert is created active, the only change of status of an alert id is
\* active -> withdrawn, and a withdrawn alert never gets another status.
C9_StatusOneWay ==
  [][/\ \A j \in 1..Len(alerts') :
          /\ alerts'[j].status \in {"active", "withdrawn"}
          /\ alerts'[j].alert_id \notin Ids(alerts, "alert_id")
             => alerts'[j].status = "active"
     /\ \A i \in 1..Len(alerts), j \in 1..Len(alerts') :
          alerts[i].alert_id = alerts'[j].alert_id
          => \/ alerts'[j].status = alerts[i].status
             \/ alerts[i].status = "active" /\ alerts'[j].status = "withdrawn"]_vars

\* C9 witness: an alert has been issued after another one was withdrawn
C9_Witness ==
  /\ out = "Alert issued."
  /\ \E i \in 1..Len(alerts) : alerts[i].status = "withdrawn"

\* every entry of old is in new, its identifier apart
Kept(old, new, key_name) ==
  \A i \in 1..Len(old) :
    \E j \in 1..Len(new) : [new[j] EXCEPT ![key_name] = old[i][key_name]] = old[i]

\* C10: starting the program never discards data: the air-quality, citizen,
\* alert and guideline collections hold after the start every entry they held
\* before it.
C10_StartKeepsData ==
  [][Start => /\ Kept(air, air', "record_id")
              /\ Kept(citizens, citizens', "citizen_id")
              /\ Kept(alerts, alerts', "alert_id")
              /\ Kept(guidelines, guidelines', "guide_id")]_vars

\* the profile the citizens file holds for the citizen who is logged in
Persisted(cs) == cs[find_by_id(cs, "citizen_id", citizen.citizen_id)]

\* what "View Current Air Quality" shows for a region: the latest record of the
\* region followed by the region's active alerts, nothing if it has no record
CurrentFor(region) ==
  LET recs == SelectSeq(air, LAMBDA r : lower(r.region) = lower(region))
      active == SelectSeq(alerts,
                  LAMBDA a : lower(a.region) = lower(region) /\ a.status = "active")
  IN  IF recs = <<>> THEN <<>> ELSE <<Latest(recs)>> \o active

\* C11: during a citizen session the citizen menu works on the persisted
\* profile: after every step that stays in the session the name of the menu
\* header is the persisted name, and "View Current Air Quality" shows the
\* records and active alerts of the persisted location.
C11_SessionProfileCurrent ==
  [][menu = "citizen" /\ menu' = "citizen"
     => /\ citizen'.name = Persisted(citizens').name
        /\ view_current_aqi => table' = CurrentFor(Persisted(citizens).location)]_vars

====
